---- MODULE Spec2Model ----
(***************************************************************************)
(* Model of the XRD surface-scan simulation and deconvolution code:        *)
(*   src/deconvolutioner.py          class XRD_Surface_Scan_Process        *)
(*   src/others/means_measurament.py windowed-average script               *)
(*                                                                         *)
(* Python floats are modelled as exact rationals <<num, den>> (den > 0,    *)
(* lowest terms), so every statement below is one of real arithmetic;      *)
(* binary64 rounding is not represented.  Positions are in millimetres,    *)
(* stresses in MPa.  An attribute that may be None is None or Some(value).  *)
(***************************************************************************)
EXTENDS Integers, Sequences, FiniteSets

(***************************************************************************)
(* Rational arithmetic standing for the float operations of the code.      *)
(***************************************************************************)
Abs(n) == IF n < 0 THEN -n ELSE n

RECURSIVE Gcd(_, _)
Gcd(a, b) == IF b = 0 THEN a ELSE Gcd(b, a % b)

\* n / d in lowest terms with a positive denominator (d # 0).
Rat(n, d) ==
    LET s == IF d < 0 THEN -1 ELSE 1
        g == Gcd(Abs(n), Abs(d))
    IN  <<(s * n) \div g, (s * d) \div g>>

RInt(n) == <<n, 1>>
\* Sums over the least common denominator and products after cancelling,
\* which keeps the intermediate integers small.
RAdd(a, b) ==
    LET g == Gcd(a[2], b[2])
    IN  Rat(a[1] * (b[2] \div g) + b[1] * (a[2] \div g), (a[2] \div g) * b[2])
RNeg(a) == <<-a[1], a[2]>>
RSub(a, b) == RAdd(a, RNeg(b))
RMul(a, b) ==
    LET g == Gcd(Abs(a[1]), b[2])
        h == Gcd(Abs(b[1]), a[2])
    IN  Rat((a[1] \div g) * (b[1] \div h), (a[2] \div h) * (b[2] \div g))
RDiv(a, b) == RMul(a, IF b[1] < 0 THEN <<-b[2], -b[1]>> ELSE <<b[2], b[1]>>)
RAbs(a) == <<Abs(a[1]), a[2]>>
RLt(a, b) == a[1] * b[2] < b[1] * a[2]
RLe(a, b) == a[1] * b[2] <= b[1] * a[2]
RZero == RInt(0)
ROne == RInt(1)

\* math.ceil, as numpy's arange applies it to (stop - start) / step.
RCeil(a) == -((-a[1]) \div a[2])

\* int(x): truncation toward zero.
RTrunc(a) == IF a[1] >= 0 THEN a[1] \div a[2] ELSE -((-a[1]) \div a[2])

\* np.round: to the nearest integer, a tie going to the even neighbour.
NpRound(a) ==
    LET f == a[1] \div a[2]
        twice == 2 * (a[1] - f * a[2])
    IN  IF twice < a[2] THEN f
        ELSE IF twice > a[2] THEN f + 1
        ELSE IF f % 2 = 0 THEN f ELSE f + 1

\* An arange that keeps the endpoint when step divides stop.
ArangeClosed(stop, step) ==
    LET len == (RDiv(stop, step)[1] \div RDiv(stop, step)[2]) + 1
    IN  [k \in 1..(IF len > 0 THEN len ELSE 0) |-> RMul(RInt(k - 1), step)]

\* np.arange(0, stop, step) for step # 0: ceil(stop/step) elements k*step.
Arange(stop, step) ==
    LET len == RCeil(RDiv(stop, step))
    IN  [k \in 1..(IF len > 0 THEN len ELSE 0) |-> RMul(RInt(k - 1), step)]

\* np.linspace(start, stop, num) for num >= 1, endpoint included.
Linspace(start, stop, num) ==
    IF num = 1 THEN <<start>>
    ELSE [k \in 1..num |->
            RAdd(start, RDiv(RMul(RInt(k - 1), RSub(stop, start)), RInt(num - 1)))]

(***************************************************************************)
(* Bounds of the explored inputs.  Lengths are multiples of 1/400 mm.      *)
(***************************************************************************)
MaxBeamTicks == 6
MaxScanTicks == 9
MaxSeed == 1

SimResolution == Rat(5, 1000)
RCOND == Rat(5, 100)

BeamDiameters == {Rat(b, 400) : b \in {-4, 0, 3, MaxBeamTicks}}
OverlapRatios == {Rat(0, 1), Rat(1, 2), Rat(1, 1), Rat(3, 2)}
NoiseStdDevs == {RInt(-1), RInt(0), RInt(1)}
ScanLengths == {Rat(s, 400) : s \in {0, 2} \cup (MaxScanTicks - 1)..MaxScanTicks}
ReconResolutions == {Rat(r, 400) : r \in {-2, 0, 2, 3, 12}}
Profiles == {[level |-> -400, slope |-> 0], [level |-> -400, slope |-> 20000]}
RcondArgs == {Rat(0, 1), Rat(1, 10)}

\* Python's None, and a value that is set.
None == [some |-> FALSE]
Some(v) == [some |-> TRUE, val |-> v]
IsNone(x) == ~x.some

\* A call and how it ended: "ok", or the exception it raised.
Call(op, args, result) == [op |-> op, args |-> args, result |-> result]

VARIABLES
    constructed,            \* whether __init__ returned
    beam_diameter, beam_radius, overlap, noise_std, scan_length,
    recon_resolution_mm,    \* the constructor's argument
    x_sim, x_recon,
    real_stress_profile, measurement_centers, measured_values,
    reconstructed_profile, A_sim, A_recon,
    last,                   \* the last call and how it ended
    means                   \* the state of the script means_measurament.py

config == <<constructed, beam_diameter, beam_radius, overlap, noise_std,
            scan_length, recon_resolution_mm, x_sim, x_recon>>
vars == <<constructed, beam_diameter, beam_radius, overlap, noise_std,
          scan_length, recon_resolution_mm, x_sim, x_recon,
          real_stress_profile, measurement_centers, measured_values,
          reconstructed_profile, A_sim, A_recon, last, means>>
process == <<constructed, beam_diameter, beam_radius, overlap, noise_std,
             scan_length, recon_resolution_mm, x_sim, x_recon,
             real_stress_profile, measurement_centers, measured_values,
             reconstructed_profile, A_sim, A_recon, last>>

(***************************************************************************)
(* XRD_Surface_Scan_Process.__init__                                       *)
(***************************************************************************)
Init ==
    \E d \in BeamDiameters, o \in OverlapRatios, s \in NoiseStdDevs,
       l \in ScanLengths, r \in ReconResolutions :
        /\ beam_diameter = d
        /\ beam_radius = RDiv(d, RInt(2))
        /\ overlap = o
        /\ noise_std = s
        /\ scan_length = l
        /\ recon_resolution_mm = r
        /\ x_sim = Arange(l, SimResolution)
        \* np.arange raises ZeroDivisionError on a zero step: no object exists
        /\ constructed = (r # RZero)
        /\ x_recon = IF r # RZero THEN Arange(l, r) ELSE <<>>
        /\ real_stress_profile = None
        /\ measurement_centers = None
        /\ measured_values = None
        /\ reconstructed_profile = None
        /\ A_sim = None
        /\ A_recon = None
        /\ last = Call("__init__", <<>>,
                       IF r # RZero THEN "ok" ELSE "ZeroDivisionError")
        /\ means = [pc |-> "not run"]

(***************************************************************************)
(* load_ground_truth: the pickled spline is an external callable; it is    *)
(* one of Profiles, evaluated at every node of x_sim.                      *)
(***************************************************************************)
SplineValue(p, x) == RAdd(RInt(p.level), RMul(RInt(p.slope), x))

LoadGroundTruth ==
    /\ constructed
    /\ \/ /\ last' = Call("load_ground_truth", <<>>, "FileNotFoundError")
          /\ UNCHANGED real_stress_profile
       \/ \E p \in Profiles :
            /\ real_stress_profile' =
                Some([j \in 1..Len(x_sim) |-> SplineValue(p, x_sim[j])])
            /\ last' = Call("load_ground_truth", <<>>, "ok")
    /\ UNCHANGED <<config, measurement_centers, measured_values,
                   reconstructed_profile, A_sim, A_recon, means>>

(***************************************************************************)
(* generate_measurement_points                                             *)
(***************************************************************************)
StepSize == RMul(beam_diameter, RSub(ROne, overlap))

GenerateMeasurementPoints ==
    /\ constructed
    /\ IF StepSize = RZero
       THEN /\ last' = Call("generate_measurement_points", <<>>, "ZeroDivisionError")
            /\ UNCHANGED measurement_centers
       ELSE /\ measurement_centers' = Some(Arange(scan_length, StepSize))
            /\ last' = Call("generate_measurement_points", <<>>, "ok")
    /\ UNCHANGED <<config, real_stress_profile, measured_values,
                   reconstructed_profile, A_sim, A_recon, means>>

(***************************************************************************)
(* _build_generic_matrix.  A matrix is [rows, cols, data] with data a      *)
(* sequence of rows (numpy keeps the column count of a matrix of no rows). *)
(* The caller has checked that centers is set and that target_grid has a   *)
(* second node; without them the method raises (see BuildError).           *)
(***************************************************************************)
PointsPerBeam(target_grid) ==
    LET dx_target == RSub(target_grid[2], target_grid[1])
        points_per_beam == NpRound(RDiv(beam_diameter, dx_target))
    IN  IF points_per_beam < 1 THEN 1 ELSE points_per_beam

\* idx_j of one physical sample x_p: folded about the origin, nearest node.
FoldIndex(x_p, dx_target) ==
    LET x_effective == RAbs(x_p)
    IN  NpRound(RDiv(x_effective, dx_target))

\* The samples the beam centred at center reads.
SamplesPhys(center, points_per_beam) ==
    LET x_start_phys == RSub(center, beam_radius)
    IN  Linspace(x_start_phys, RAdd(x_start_phys, beam_diameter), points_per_beam)

\* The inner loop's update written as an assignment instead of +=.
AddWeightAssign(row, idx_j, weight) ==
    IF 0 <= idx_j /\ idx_j < Len(row)
    THEN [row EXCEPT ![idx_j + 1] = weight]
    ELSE row

\* One pass of the inner loop: the row after one sample.
AddWeight(row, idx_j, weight) ==
    IF 0 <= idx_j /\ idx_j < Len(row)
    THEN [row EXCEPT ![idx_j + 1] = RAdd(@, weight)]
    ELSE row

\* The inner loop over x_samples_phys, from sample k on.
RECURSIVE AccumulateRow(_, _, _, _, _)
AccumulateRow(row, samples, k, dx_target, weight) ==
    IF k > Len(samples) THEN row
    ELSE AccumulateRow(AddWeight(row, FoldIndex(samples[k], dx_target), weight),
                       samples, k + 1, dx_target, weight)

\* A builder that sizes the matrix by the simulation grid whatever the target.
BuildGenericMatrixSimSized(centers, target_grid) ==
    LET points_per_beam == PointsPerBeam(target_grid)
        zeros == [j \in 1..Len(x_sim) |-> RZero]
    IN  [rows |-> Len(centers),
         cols |-> Len(x_sim),
         data |-> [i \in 1..Len(centers) |->
                     AccumulateRow(zeros, SamplesPhys(centers[i], points_per_beam), 1,
                                   RSub(target_grid[2], target_grid[1]),
                                   Rat(1, points_per_beam))]]

BuildGenericMatrix(centers, target_grid) ==
    LET n_measurements == Len(centers)
        n_target == Len(target_grid)
        dx_target == RSub(target_grid[2], target_grid[1])
        points_per_beam == PointsPerBeam(target_grid)
        weight == Rat(1, points_per_beam)
        zeros == [j \in 1..n_target |-> RZero]
    IN  [rows |-> n_measurements,
         cols |-> n_target,
         data |-> [i \in 1..n_measurements |->
                     AccumulateRow(zeros, SamplesPhys(centers[i], points_per_beam),
                                   1, dx_target, weight)]]

\* How _build_generic_matrix raises: len(None), then target_grid[1].
BuildError(centers, target_grid) ==
    IF IsNone(centers) THEN "TypeError"
    ELSE IF Len(target_grid) < 2 THEN "IndexError"
    ELSE "ok"

(***************************************************************************)
(* run_simulation                                                          *)
(***************************************************************************)
RECURSIVE Dot(_, _, _, _)
Dot(row, x, lo, hi) ==
    IF lo > hi THEN RZero
    ELSE IF lo = hi THEN RMul(row[lo], x[lo])
    ELSE RAdd(Dot(row, x, lo, (lo + hi) \div 2), Dot(row, x, (lo + hi) \div 2 + 1, hi))

\* A @ x for a matrix of shape (m, n) and a vector of n entries.
MatVec(A, x) == [i \in 1..A.rows |-> Dot(A.data[i], x, 1, Len(x))]

\* np.random.normal(0, noise_std, n) under the global generator state seed;
\* a zero standard deviation gives exact zeros.
NormalSample(seed, i) == RInt(((seed + i) % 3) - 1)
Noise(seed, n) == [i \in 1..n |-> RMul(noise_std, NormalSample(seed, i))]

RunSimulation ==
    /\ constructed
    /\ IF BuildError(measurement_centers, x_sim) # "ok"
       THEN /\ last' = Call("run_simulation", <<>>,
                            BuildError(measurement_centers, x_sim))
            /\ UNCHANGED <<A_sim, measured_values>>
       ELSE \E A \in {BuildGenericMatrix(measurement_centers.val, x_sim)} :
            /\ A_sim' = Some(A)
            /\ IF IsNone(real_stress_profile)
               THEN \* the matrix product rejects the None operand
                    /\ last' = Call("run_simulation", <<>>, "TypeError")
                    /\ UNCHANGED measured_values
               ELSE IF RLt(noise_std, RZero)
               THEN \* np.random.normal: scale < 0
                    /\ last' = Call("run_simulation", <<>>, "ValueError")
                    /\ UNCHANGED measured_values
               ELSE \E seed \in 0..MaxSeed :
                    \E clean_measurements \in {MatVec(A, real_stress_profile.val)} :
                    \E noise \in {Noise(seed, Len(clean_measurements))} :
                      /\ measured_values' =
                            Some([i \in 1..Len(clean_measurements) |->
                                    RAdd(clean_measurements[i], noise[i])])
                      /\ last' = Call("run_simulation", <<>>, "ok")
    /\ UNCHANGED <<config, real_stress_profile, measurement_centers,
                   reconstructed_profile, A_recon, means>>

(***************************************************************************)
(* run_reconstruction.  np.linalg.lstsq is a library call: it raises       *)
(* LinAlgError unless b is a vector of A.rows entries, and otherwise       *)
(* returns the truncated-SVD solution, a vector of A.cols entries, whose   *)
(* values are not computed here.  args are the arguments a caller passes   *)
(* besides self; the method declares none.                                 *)
(***************************************************************************)
\* A solve that does not look at b before returning.
LstsqErrorUnchecked(A, b) == "ok"

LstsqError(A, b) ==
    IF IsNone(b) THEN "LinAlgError"
    ELSE IF Len(b.val) # A.rows THEN "LinAlgError"
    ELSE "ok"

Lstsq(A, b, rcond) == [shape |-> A.cols, rcond |-> rcond]

\* What run_reconstruction never assigns.
ReconstructionFrameCleared ==
    /\ measured_values' = None
    /\ UNCHANGED <<config, real_stress_profile, measurement_centers, A_sim>>

ReconstructionFrame ==
    UNCHANGED <<config, real_stress_profile, measurement_centers,
                measured_values, A_sim>>

ReconstructionArgs == {<<>>} \cup {<<r>> : r \in RcondArgs}

RunReconstruction(args) ==
    /\ constructed
    /\ IF args # <<>>
       THEN /\ last' = Call("run_reconstruction", args, "TypeError")
            /\ UNCHANGED <<A_recon, reconstructed_profile>>
       ELSE IF Len(x_recon) < 2
       THEN \* the progress message formats x_recon[1]
            /\ last' = Call("run_reconstruction", args, "IndexError")
            /\ UNCHANGED <<A_recon, reconstructed_profile>>
       ELSE IF BuildError(measurement_centers, x_recon) # "ok"
       THEN /\ last' = Call("run_reconstruction", args, BuildError(measurement_centers, x_recon))
            /\ UNCHANGED <<A_recon, reconstructed_profile>>
       ELSE \E A \in {BuildGenericMatrix(measurement_centers.val, x_recon)} :
            /\ A_recon' = Some(A)
            /\ IF LstsqError(A, measured_values) # "ok"
               THEN /\ last' = Call("run_reconstruction", args, LstsqError(A, measured_values))
                    /\ UNCHANGED reconstructed_profile
               ELSE /\ reconstructed_profile' = Some(Lstsq(A, measured_values.val, RCOND))
                    /\ last' = Call("run_reconstruction", args, "ok")
    /\ ReconstructionFrame
    /\ UNCHANGED means

Next ==
    \/ LoadGroundTruth
    \/ GenerateMeasurementPoints
    \/ RunSimulation
    \/ \E args \in ReconstructionArgs : RunReconstruction(args)

Spec == Init /\ [][Next]_vars

(***************************************************************************)
(* src/others/means_measurament.py: the windowed-average script.  Its      *)
(* literals resolution_points = 40 and beam_diameter = 0.5 are two of the  *)
(* inputs explored; real_stress is the imported curve on distance.         *)
(***************************************************************************)
MaxResolutionPoints == 5
surface_measurement_distance == 4
noise_level == 5

MeansResolutionPoints == 2..MaxResolutionPoints \cup {40}
MeansProfiles == {[level |-> -400, slope |-> 0], [level |-> -400, slope |-> 39]}
MeansBeamDiameters == {Rat(1, 2), Rat(3, 2), Rat(5, 2)}
overlap_percentage == Rat(1, 2)

\* Row i (from 0) of A: 1/window_length on the clipped window, which is
\* [i - kernel_radius, i + kernel_radius).
KernelRowUnclipped(i, n, kernel_radius) ==
    LET start_idx == IF i - kernel_radius > 0 THEN i - kernel_radius ELSE 0
        end_idx == IF i + kernel_radius < n THEN i + kernel_radius ELSE n
    IN  [j \in 1..n |->
            IF end_idx - start_idx > 0 /\ start_idx <= j - 1 /\ j - 1 < end_idx
            THEN Rat(1, 2 * kernel_radius) ELSE RZero]

KernelRow(i, n, kernel_radius) ==
    LET start_idx == IF i - kernel_radius > 0 THEN i - kernel_radius ELSE 0
        end_idx == IF i + kernel_radius < n THEN i + kernel_radius ELSE n
        window_length == end_idx - start_idx
    IN  [j \in 1..n |->
            IF window_length > 0 /\ start_idx <= j - 1 /\ j - 1 < end_idx
            THEN Rat(1, window_length) ELSE RZero]

\* (np.abs(distance - center)).argmin(): the first node nearest to center.
ArgMin(distance, center) ==
    LET gap == [j \in 1..Len(distance) |-> RAbs(RSub(distance[j], center))]
    IN  (CHOOSE j \in 1..Len(distance) :
            \A k \in 1..Len(distance) :
                RLt(gap[j], gap[k]) \/ (gap[j] = gap[k] /\ j <= k)) - 1

\* np.mean(values[start_idx:end_idx]) for start_idx < end_idx.
RECURSIVE SumSlice(_, _, _)
SumSlice(values, start_idx, end_idx) ==
    IF start_idx >= end_idx THEN RZero
    ELSE IF start_idx + 1 = end_idx THEN values[end_idx]
    ELSE RAdd(SumSlice(values, start_idx, (start_idx + end_idx) \div 2),
              SumSlice(values, (start_idx + end_idx) \div 2, end_idx))
Mean(values, start_idx, end_idx) ==
    RDiv(SumSlice(values, start_idx, end_idx), RInt(end_idx - start_idx))

\* np.interp(x, xp, fp) for a non-empty increasing xp.
Interp(x, xp, fp) ==
    IF RLe(x, xp[1]) THEN fp[1]
    ELSE IF RLe(xp[Len(xp)], x) THEN fp[Len(xp)]
    ELSE LET k == CHOOSE k \in 1..(Len(xp) - 1) : RLt(xp[k], x) /\ RLe(x, xp[k + 1])
         IN  RAdd(fp[k], RDiv(RMul(RSub(fp[k + 1], fp[k]), RSub(x, xp[k])),
                              RSub(xp[k + 1], xp[k])))

InitMeans ==
    \E n \in MeansResolutionPoints, d \in MeansBeamDiameters, p \in MeansProfiles :
      \E distance \in {Linspace(RZero, RInt(surface_measurement_distance), n)} :
        /\ means = [pc |-> "matrix",
                    i |-> 0,
                    resolution_points |-> n,
                    beam_diameter |-> d,
                    distance |-> distance,
                    real_stress |-> [j \in 1..n |-> SplineValue(p, distance[j])],
                    step_size |-> RMul(d, RSub(ROne, overlap_percentage)),
                    measurement_centers |->
                        Arange(RInt(surface_measurement_distance),
                               RMul(d, RSub(ROne, overlap_percentage))),
                    points_per_beam |-> RTrunc(RDiv(d, RSub(distance[2], distance[1]))),
                    kernel_radius |->
                        RTrunc(RDiv(d, RSub(distance[2], distance[1]))) \div 2,
                    A |-> [r \in 1..n |-> [j \in 1..n |-> RZero]],
                    discrete_measurements |-> <<>>,
                    valid_centers |-> <<>>,
                    interpolated_measurement |-> None,
                    reconstructed_stress |-> None]
        /\ constructed = FALSE
        /\ beam_diameter = RZero /\ beam_radius = RZero /\ overlap = RZero
        /\ noise_std = RZero /\ scan_length = RZero /\ recon_resolution_mm = RZero
        /\ x_sim = <<>> /\ x_recon = <<>>
        /\ real_stress_profile = None /\ measurement_centers = None
        /\ measured_values = None /\ reconstructed_profile = None
        /\ A_sim = None /\ A_recon = None
        /\ last = Call("not run", <<>>, "ok")

\* One pass of the loop that fills A (lines 23-28).
MeansBuildRow ==
    /\ means.pc = "matrix"
    /\ UNCHANGED process
    /\ means' = [means EXCEPT
            !.A[means.i + 1] =
                KernelRow(means.i, means.resolution_points, means.kernel_radius),
            !.i = IF means.i + 1 = means.resolution_points THEN 0 ELSE means.i + 1,
            !.pc = IF means.i + 1 = means.resolution_points
                   THEN "measure" ELSE "matrix"]

\* One pass of the loop over measurement_centers (lines 33-42).
MeansMeasure ==
    /\ means.pc = "measure"
    /\ UNCHANGED process
    /\ LET n == means.resolution_points
           center == means.measurement_centers[means.i + 1]
           idx == ArgMin(means.distance, center)
           start_idx == IF idx - means.kernel_radius > 0
                        THEN idx - means.kernel_radius ELSE 0
           end_idx == IF idx + means.kernel_radius < n
                      THEN idx + means.kernel_radius ELSE n
           more == means.i + 1 < Len(means.measurement_centers)
       IN  means' = [means EXCEPT
                !.discrete_measurements =
                    IF start_idx < end_idx
                    THEN Append(@, Mean(means.real_stress, start_idx, end_idx))
                    ELSE @,
                !.valid_centers =
                    IF start_idx < end_idx THEN Append(@, center) ELSE @,
                !.i = IF more THEN means.i + 1 ELSE 0,
                !.pc = IF more THEN "measure" ELSE "noise"]

\* discrete_measurements += np.random.normal(0, noise_level, ...) (lines 44-46).
MeansAddNoise ==
    /\ means.pc = "noise"
    /\ UNCHANGED process
    /\ \E seed \in 0..MaxSeed :
        means' = [means EXCEPT
            !.discrete_measurements =
                [k \in 1..Len(@) |->
                    RAdd(@[k], RMul(RInt(noise_level), NormalSample(seed, k)))],
            !.pc = "solve"]

\* np.interp, which raises ValueError on no sample points, then lstsq
\* (lines 48-50).
MeansSolve ==
    /\ means.pc = "solve"
    /\ UNCHANGED process
    /\ IF means.valid_centers = <<>>
       THEN means' = [means EXCEPT !.pc = "ValueError"]
       ELSE \E interpolated \in
                {[j \in 1..means.resolution_points |->
                    Interp(means.distance[j], means.valid_centers,
                           means.discrete_measurements)]} :
            means' = [means EXCEPT
                !.interpolated_measurement = Some(interpolated),
                !.reconstructed_stress =
                    Some(Lstsq([rows |-> means.resolution_points,
                                cols |-> means.resolution_points,
                                data |-> means.A], interpolated, RCOND)),
                !.pc = "done"]

NextMeans ==
    \/ MeansBuildRow
    \/ MeansMeasure
    \/ MeansAddNoise
    \/ MeansSolve

SpecMeans == InitMeans /\ [][NextMeans]_vars

(***************************************************************************)
(* Configurations and shapes the properties speak of.                      *)
(***************************************************************************)
Positive(a) == RLt(RZero, a)

\* What the planner is specified for.
PlannerInput ==
    /\ Positive(beam_diameter)
    /\ RLe(RZero, overlap) /\ RLt(overlap, ROne)
    /\ Positive(scan_length)

ValidConfiguration == PlannerInput /\ Positive(recon_resolution_mm)

InvalidConfiguration ==
    \/ RLe(beam_diameter, RZero)
    \/ RLe(ROne, overlap)
    \/ RLe(scan_length, RZero)
    \/ RLe(recon_resolution_mm, RZero)

RECURSIVE SumSeq(_, _, _)
SumSeq(row, lo, hi) ==
    IF lo > hi THEN RZero
    ELSE IF lo = hi THEN row[lo]
    ELSE RAdd(SumSeq(row, lo, (lo + hi) \div 2), SumSeq(row, (lo + hi) \div 2 + 1, hi))
RowSum(row) == SumSeq(row, 1, Len(row))

IsConstant(profile) == \A j \in 1..Len(profile) : profile[j] = profile[1]

Ran(op) == last.op = op /\ last.args = <<>>

(***************************************************************************)
(* C1.  For a positive beam diameter, an overlap ratio in [0,1) and a      *)
(* positive scan length, generate_measurement_points returns normally and  *)
(* the centers are exactly k*step, k = 0,1,..., with k*step < scan_length, *)
(* step = beam_diameter*(1-overlap): first center 0, strictly increasing   *)
(* by step, last center below scan_length and the next multiple not below  *)
(* it; beam 0.5, overlap 0.5, scan length 3.5 gives the 14 centers         *)
(* 0 .. 3.25.                                                              *)
(***************************************************************************)
PlannerExample ==
    LET c == Arange(Rat(35, 10), RMul(Rat(1, 2), RSub(ROne, Rat(1, 2))))
    IN  Len(c) = 14 /\ c[1] = RZero /\ c[2] = Rat(1, 4) /\ c[14] = Rat(325, 100)

C2_ConstantProfileFidelity ==
    (/\ ValidConfiguration
     /\ Ran("run_simulation") /\ last.result = "ok"
     /\ noise_std = RZero
     /\ IsConstant(real_stress_profile.val)) =>
        /\ \A i \in 1..Len(measured_values.val) :
                measured_values.val[i] = real_stress_profile.val[1]
        /\ \A i \in 1..A_sim.val.rows : RowSum(A_sim.val.data[i]) = ROne

\* The windowed-average script keeps a constant profile: before noise is
\* added, every reading of a constant real_stress is that constant.
MeansConstantFidelity ==
    (means.pc = "noise" /\ IsConstant(means.real_stress)) =>
        \A k \in 1..Len(means.discrete_measurements) :
            means.discrete_measurements[k] = means.real_stress[1]

(***************************************************************************)
(* C3.  Row sums of the windowed-average operator A: every row is either   *)
(* all zero (no node under the beam) or has k >= 1 nonzero entries, each   *)
(* equal to 1/k, and so sums to 1; no row has another sum.                 *)
(***************************************************************************)
NonZeroCount(row) == Cardinality({j \in 1..Len(row) : row[j] # RZero})

C3_WindowedRowSums ==
    means.pc # "not run" =>
        \A i \in 1..Len(means.A) :
            \A k \in {NonZeroCount(means.A[i])} :
                IF k = 0
                THEN RowSum(means.A[i]) = RZero
                ELSE /\ \A j \in 1..Len(means.A[i]) :
                            means.A[i][j] # RZero => means.A[i][j] = Rat(1, k)
                     /\ RowSum(means.A[i]) = ROne

\* A finished A with a row clipped at the boundary and a wider interior row.
C3_Witness ==
    /\ means.pc = "measure"
    /\ \E i1, i2 \in 1..Len(means.A) :
        /\ NonZeroCount(means.A[i1]) >= 1
        /\ NonZeroCount(means.A[i1]) < NonZeroCount(means.A[i2])

\* A finished A whose rows are all zero: the beam is narrower than two nodes.
C3_ZeroRowsReached ==
    /\ means.pc = "measure"
    /\ \A i \in 1..Len(means.A) : NonZeroCount(means.A[i]) = 0

(***************************************************************************)
(* C4.  Invalid configuration is rejected: with a beam diameter <= 0, an   *)
(* overlap ratio >= 1, a scan length <= 0 or a reconstruction resolution   *)
(* <= 0, construction or generate_measurement_points fails, so no centers, *)
(* operator or measurement vector ever exists for such a configuration.    *)
(***************************************************************************)
C4_InvalidConfigurationRejected ==
    InvalidConfiguration =>
        /\ IsNone(measurement_centers)
        /\ IsNone(A_sim) /\ IsNone(A_recon)
        /\ IsNone(measured_values)
        /\ (Ran("generate_measurement_points") => last.result # "ok")

(***************************************************************************)
(* C8.  Grid invariant: for every configuration the constructor accepts    *)
(* (here only those with positive lengths and resolutions), x_sim and      *)
(* x_recon start at 0, are strictly increasing with uniform spacing        *)
(* dx > 0, stay below scan_length and have at least 2 nodes.               *)
(***************************************************************************)
GridInvariant(x, dx) ==
    /\ Len(x) >= 2
    /\ x[1] = RZero
    /\ \A k \in 1..Len(x) : RLt(x[k], scan_length)
    /\ \A k \in 1..(Len(x) - 1) : RSub(x[k + 1], x[k]) = dx /\ Positive(dx)

C8_GridInvariant ==
    (constructed /\ ValidConfiguration) =>
        /\ GridInvariant(x_sim, SimResolution)
        /\ GridInvariant(x_recon, recon_resolution_mm)

(***************************************************************************)
(* C5.  Graceful degeneracy: whenever run_reconstruction has built its     *)
(* operator and the operator's row count equals the length of the          *)
(* measurement vector, the call returns normally, whatever the operator    *)
(* (all-zero rows, all-zero columns, rank deficiency), and the result has  *)
(* one entry per node of x_recon; after its operator is built the call     *)
(* fails only on a mismatch of rows and measurements.                      *)
(***************************************************************************)
OperatorBuilt ==
    /\ Ran("run_reconstruction")
    /\ ~IsNone(measurement_centers)
    /\ Len(x_recon) >= 2

C5_GracefulDegeneracy ==
    OperatorBuilt =>
        /\ ~IsNone(A_recon)
        /\ IF ~IsNone(measured_values) /\ Len(measured_values.val) = A_recon.val.rows
           THEN /\ last.result = "ok"
                /\ ~IsNone(reconstructed_profile)
                /\ reconstructed_profile.val.shape = Len(x_recon)
           ELSE last.result = "LinAlgError"

ZeroColumn(A, j) == \A i \in 1..A.rows : A.data[i][j] = RZero

\* A reconstruction that returned on an operator with an all-zero column
\* (an uncovered node) and fewer rows than columns (rank deficient).
C5_Witness ==
    /\ OperatorBuilt
    /\ last.result = "ok"
    /\ A_recon.val.rows >= 1
    /\ A_recon.val.rows < A_recon.val.cols
    /\ \E j \in 1..A_recon.val.cols : ZeroColumn(A_recon.val, j)
    /\ reconstructed_profile.val.shape = Len(x_recon)

(***************************************************************************)
(* C6.  Resolution independence: an operator built on a grid has one row   *)
(* per measurement center and one column per grid node, so A_sim and       *)
(* A_recon have the same row count, that of the measurement vector, and    *)
(* the reconstruction resolution decides only A_recon's column count.      *)
(***************************************************************************)
ShapeIs(A, m, n) ==
    /\ A.rows = m /\ A.cols = n
    /\ Len(A.data) = m
    /\ \A i \in 1..m : Len(A.data[i]) = n

C6_ResolutionIndependence ==
    /\ ~IsNone(A_sim) =>
            ShapeIs(A_sim.val, Len(measurement_centers.val), Len(x_sim))
    /\ ~IsNone(A_recon) =>
            ShapeIs(A_recon.val, Len(measurement_centers.val), Len(x_recon))
    /\ (~IsNone(A_sim) /\ ~IsNone(A_recon)) => A_sim.val.rows = A_recon.val.rows
    /\ ~IsNone(measured_values) =>
            /\ ~IsNone(A_sim)
            /\ Len(measured_values.val) = A_sim.val.rows
    /\ (~IsNone(measured_values) /\ ~IsNone(A_recon)) =>
            Len(measured_values.val) = A_recon.val.rows

\* Both operators built, on grids of different sizes, with at least two rows.
C6_Witness ==
    /\ ~IsNone(A_sim) /\ ~IsNone(A_recon) /\ ~IsNone(measured_values)
    /\ A_sim.val.cols # A_recon.val.cols
    /\ A_recon.val.rows >= 2
    /\ A_recon.val.rows # A_recon.val.cols

FoldedIndices(center, target_grid) ==
    LET dx == RSub(target_grid[2], target_grid[1])
        ratio == NpRound(RDiv(beam_diameter, dx))
        ppb == IF ratio >= 1 THEN ratio ELSE 1
        first == RSub(center, RDiv(beam_diameter, RInt(2)))
    IN  [k \in 1..ppb |->
            LET p == IF ppb = 1 THEN first
                     ELSE RAdd(first, RMul(Rat(k - 1, ppb - 1), beam_diameter))
            IN  NpRound(RDiv(RAbs(p), dx))]

SampleCount(indices, j) == Cardinality({k \in 1..Len(indices) : indices[k] = j - 1})

FoldAccumulates(A, target_grid) ==
    \A dx \in {RSub(target_grid[2], target_grid[1])} :
    \A i \in 1..A.rows :
    \A indices \in {FoldedIndices(measurement_centers.val[i], target_grid)} :
    \A samples \in {SamplesPhys(measurement_centers.val[i], PointsPerBeam(target_grid))} :
        /\ Len(samples) = Len(indices)
        /\ \A j \in 1..A.cols :
                A.data[i][j] = Rat(SampleCount(indices, j), Len(indices))
        /\ \A k \in 1..Len(samples) :
                /\ FoldIndex(samples[k], dx) = indices[k]
                /\ FoldIndex(RNeg(samples[k]), dx) = indices[k]

C9_ReflectiveFoldAccumulation ==
    /\ ~IsNone(A_sim) => FoldAccumulates(A_sim.val, x_sim)
    /\ ~IsNone(A_recon) => FoldAccumulates(A_recon.val, x_recon)

\* An operator of three samples per beam in which two samples of the first
\* row met on one column and a sample of the last row fell off the grid.
C9_Witness ==
    /\ ~IsNone(A_sim)
    /\ PointsPerBeam(x_sim) = 3
    /\ A_sim.val.rows >= 2
    /\ \E j \in 1..A_sim.val.cols :
            SampleCount(FoldedIndices(measurement_centers.val[1], x_sim), j) = 2
    /\ RLt(RowSum(A_sim.val.data[A_sim.val.rows]), ROne)

(***************************************************************************)
(* C10.  Pipeline ordering: in every reachable state reconstructed_profile *)
(* is set only if measured_values is, and measured_values only if          *)
(* real_stress_profile and measurement_centers are; run_simulation and     *)
(* run_reconstruction raise when called before their prerequisites.        *)
(***************************************************************************)
C10_PipelineOrdering ==
    /\ ~IsNone(reconstructed_profile) => ~IsNone(measured_values)
    /\ ~IsNone(measured_values) =>
            ~IsNone(real_stress_profile) /\ ~IsNone(measurement_centers)
    /\ (Ran("run_simulation")
            /\ (IsNone(real_stress_profile) \/ IsNone(measurement_centers))) =>
            last.result # "ok" /\ IsNone(measured_values)
    /\ (Ran("run_reconstruction") /\ IsNone(measured_values)) =>
            last.result # "ok" /\ IsNone(reconstructed_profile)

\* run_reconstruction was called with centers planned but nothing measured:
\* it built A_recon and raised.
C10_Witness ==
    /\ Ran("run_reconstruction")
    /\ IsNone(measured_values)
    /\ ~IsNone(A_recon)
    /\ last.result = "LinAlgError"
====
